---- MODULE Spec2Model ----
(***************************************************************************)
(* A model of the AI Copilot Reviewer VS Code extension                    *)
(* (src/ai-copilot-reviewer/src/extension.js): the chat protocol between   *)
(* the webview script and the extension host, and the review commands      *)
(* that write the diagnostic collection of a document.                     *)
(*                                                                         *)
(* JavaScript runs one handler at a time; an async function is suspended   *)
(* only at an await whose promise is not yet settled (the key prompt and   *)
(* the HTTP call).  Each action below is one such uninterrupted run.       *)
(***************************************************************************)
EXTENDS Integers, Sequences, FiniteSets, TLC

\* ---------------------------------------------------------------- bounds
MaxChat == 2      \* chat messages the user submits in one behaviour
MaxClear == 1     \* clicks on "clear chat" in one behaviour
TextLen == 1      \* characters of a reply revealed by the typing animation
MaxLines == 2     \* largest line count of the document
MaxOps == 2       \* editor commands started in one behaviour
MaxInFlight == 1  \* commands a run starts that are suspended at the same time
MaxToks == 4      \* pieces of a reply text given to the parsers alone
MaxHist == 8      \* turns of a conversation held before the behaviour starts

\* ------------------------------------------------------ program constants
ContextTurns == 6 \* conversationHistory.slice(-6)
FixContext == 5   \* applyAIFix: +-5 lines around the diagnostic
MinMsgLen == 10   \* quickReviewSelection: issue.message.length > 10

NULL == "null"
NoReq == 0

VARIABLES
  \* configuration store
  apiKey,                   \* TRUE when config.get("apiKey") is set
  \* extension host, chat
  conversationHistory,      \* sequence of turns [role, req]
  currentStreamController,  \* NULL or the request it would abort
  chatReqs,                 \* suspended handleChatMessage calls
  toHost,                   \* webview -> host messages not yet handled
  toWebview,                \* host -> webview messages not yet handled
  \* webview script
  isStreaming,              \* the script's isStreaming flag
  currentTypingDiv,         \* NoReq or the request whose reply is being typed
  typeIndex,                \* typeMessage's index into the reply text
  nChat,                    \* messages submitted so far (the next request id)
  nClear,                   \* clear clicks so far
  \* history of the run, read by the properties only
  stoppedReqs,              \* requests that were outstanding when stopStream was handled
  lastChat                  \* the request whose axios.post settled last, and how:
                            \* "rejected", or resolved with the documented body
                            \* ("gemini") or with another one ("unreadable")

chatVars == <<apiKey, conversationHistory, currentStreamController, chatReqs,
              toHost, toWebview, isStreaming, currentTypingDiv, typeIndex,
              nChat, nClear, stoppedReqs, lastChat>>

\* lastChat before any request has settled
NoChat == [req |-> NoReq, body |-> "none"]

\* ------------------------------------------------- JavaScript value model
\* A JSON value is a tagged record: t is its type, v its payload.
Undefined == [t |-> "undefined", v |-> 0]
TypeError == [t |-> "TypeError", v |-> 0]
JStr(x) == [t |-> "string", v |-> x]
JArr(s) == [t |-> "array", v |-> s]
JObj(f) == [t |-> "object", v |-> f]

\* value[key]: reading a property of undefined throws; an index or a name the
\* value does not have reads as undefined.
GetProp(val, key) ==
  IF val.t \in {"undefined", "TypeError"} THEN TypeError
  ELSE IF val.t = "object" /\ key \in DOMAIN val.v THEN val.v[key]
  ELSE Undefined

GetIndex(val, i) ==
  IF val.t \in {"undefined", "TypeError"} THEN TypeError
  ELSE IF val.t = "array" /\ i + 1 \in DOMAIN val.v THEN val.v[i + 1]
  ELSE Undefined

\* The bodies the completion endpoint can answer a request with: the
\* documented one (candidates is an array of candidates whose content.parts
\* is an array), one without candidates (a blocked prompt), and one whose
\* candidates and parts are single objects.
BodyShapes == {"gemini", "blocked", "flat"}

ResponseData(shape, text) ==
  CASE shape = "gemini" ->
         JObj([candidates |-> JArr(<<JObj([content |->
                 JObj([parts |-> JArr(<<JObj([text |-> JStr(text)])>>)])])>>)])
    [] shape = "flat" ->
         JObj([candidates |-> JObj([content |->
                 JObj([parts |-> JObj([text |-> JStr(text)])])])])
    [] OTHER -> JObj([promptFeedback |-> JStr(text)])

\* applyAIFix: response.data.candidates.content.parts.text
FixCandidateText(data) ==
  GetProp(GetProp(GetProp(GetProp(data, "candidates"), "content"), "parts"), "text")

\* everywhere else: response.data.candidates[0].content.parts[0].text
CandidateText(data) ==
  GetProp(GetIndex(GetProp(GetProp(GetIndex(GetProp(data, "candidates"), 0),
                                   "content"), "parts"), 0), "text")

\* ------------------------------------------------------------------ chat
Turn(role, r) == [role |-> role, req |-> r]
Msg(type, r) == [type |-> type, req |-> r]

\* the whole history, had it no slice
SliceAll(h, n) == h

\* conversationHistory.slice(-6)
SliceLast(h, n) ==
  IF Len(h) <= n THEN h ELSE SubSeq(h, Len(h) - n + 1, Len(h))

\* .map(msg => ({role: msg.role === "assistant" ? "model" : "user", ...}))
ToModelRole(turn) ==
  [role |-> IF turn.role = "assistant" THEN "model" ELSE "user", req |-> turn.req]

ContextWindow(h) ==
  [i \in 1..Len(SliceLast(h, ContextTurns)) |-> ToModelRole(SliceLast(h, ContextTurns)[i])]

\* webview.postMessage, had an error only been logged to the console
PostToWebviewDropsErrors(m) ==
  IF m.type = "error" THEN UNCHANGED toWebview
                      ELSE toWebview' = Append(toWebview, m)

\* webview.postMessage(m)
PostToWebview(m) ==
  toWebview' = Append(toWebview, m)

Outstanding == {q \in chatReqs : q.pc = "sent"}

\* handleChatMessage after getApiKey returned a key: push the user turn and
\* call axios.post with the window; the call suspends until the reply.
SendChatRequest(r) ==
  /\ conversationHistory' = Append(conversationHistory, Turn("user", r))
  /\ chatReqs' = {q \in chatReqs : q.req # r} \cup
                 {[req |-> r, pc |-> "sent",
                   window |-> ContextWindow(Append(conversationHistory, Turn("user", r)))]}

\* case "sendMessage": handleChatMessage up to its first suspension
HostSendMessage ==
  /\ toHost # <<>>
  /\ Head(toHost).type = "sendMessage"
  /\ toHost' = Tail(toHost)
  /\ IF apiKey
       THEN SendChatRequest(Head(toHost).req)
       ELSE /\ chatReqs' = chatReqs \cup
                 {[req |-> Head(toHost).req, pc |-> "prompt", window |-> <<>>]}
            /\ UNCHANGED conversationHistory
  /\ UNCHANGED <<apiKey, currentStreamController, toWebview, isStreaming,
                 currentTypingDiv, typeIndex, nChat, nClear, stoppedReqs, lastChat>>

\* getApiKey's input box is answered with a key: the key is saved and
\* handleChatMessage goes on to send
ChatKeyEntered ==
  \E q \in chatReqs :
    /\ q.pc = "prompt"
    /\ apiKey' = TRUE
    /\ SendChatRequest(q.req)
    /\ UNCHANGED <<currentStreamController, toHost, toWebview, isStreaming,
                   currentTypingDiv, typeIndex, nChat, nClear, stoppedReqs, lastChat>>

\* getApiKey's input box is dismissed, had handleChatMessage returned
\* without a word as the review commands do
ChatKeyDismissedSilent ==
  \E q \in chatReqs :
    /\ q.pc = "prompt"
    /\ chatReqs' = chatReqs \ {q}
    /\ UNCHANGED <<apiKey, conversationHistory, currentStreamController, toHost,
                   toWebview, isStreaming, currentTypingDiv, typeIndex, nChat,
                   nClear, stoppedReqs, lastChat>>

\* getApiKey's input box is dismissed: handleChatMessage posts an error
ChatKeyDismissed ==
  \E q \in chatReqs :
    /\ q.pc = "prompt"
    /\ chatReqs' = chatReqs \ {q}
    /\ PostToWebview(Msg("error", q.req))
    /\ UNCHANGED <<apiKey, conversationHistory, currentStreamController, toHost,
                   isStreaming, currentTypingDiv, typeIndex, nChat, nClear,
                   stoppedReqs, lastChat>>

\* src/unnamed/part_000, the other copy of the extension: its
\* handleChatMessage pushes the user turn first (line 594) and then awaits
\* getApiKey, so the turn is in the history while the input box is open
HostSendMessageOld ==
  /\ toHost # <<>>
  /\ Head(toHost).type = "sendMessage"
  /\ toHost' = Tail(toHost)
  /\ conversationHistory' = Append(conversationHistory, Turn("user", Head(toHost).req))
  /\ chatReqs' = chatReqs \cup
       {IF apiKey
          THEN [req |-> Head(toHost).req, pc |-> "sent",
                window |-> ContextWindow(Append(conversationHistory,
                                                Turn("user", Head(toHost).req)))]
          ELSE [req |-> Head(toHost).req, pc |-> "prompt", window |-> <<>>]}
  /\ UNCHANGED <<apiKey, currentStreamController, toWebview, isStreaming,
                 currentTypingDiv, typeIndex, nChat, nClear, stoppedReqs, lastChat>>

\* part_000: the input box is answered with a key and handleChatMessage
\* goes on to line 615, the axios.post with the history as it is by then
ChatKeyEnteredOld ==
  \E q \in chatReqs :
    /\ q.pc = "prompt"
    /\ apiKey' = TRUE
    /\ chatReqs' = (chatReqs \ {q}) \cup
         {[req |-> q.req, pc |-> "sent", window |-> ContextWindow(conversationHistory)]}
    /\ UNCHANGED <<conversationHistory, currentStreamController, toHost, toWebview,
                   isStreaming, currentTypingDiv, typeIndex, nChat, nClear,
                   stoppedReqs, lastChat>>

\* axios.post resolves, had the reply been posted without being pushed
ChatReplyNoPush ==
  \E q \in chatReqs, shape \in BodyShapes :
    /\ q.pc = "sent"
    /\ chatReqs' = chatReqs \ {q}
    /\ lastChat' = [req |-> q.req,
                    body |-> IF shape = "gemini" THEN "gemini" ELSE "unreadable"]
    /\ IF CandidateText(ResponseData(shape, "reply")).t = "string"
         THEN PostToWebview(Msg("aiResponse", q.req))
         ELSE PostToWebview(Msg("error", q.req))
    /\ UNCHANGED <<apiKey, conversationHistory, currentStreamController, toHost,
                   isStreaming, currentTypingDiv, typeIndex, nChat, nClear,
                   stoppedReqs>>

\* axios.post resolves: the reply text is read, pushed and posted; a body
\* without the text throws into the catch block, which posts an error
ChatReply ==
  \E q \in chatReqs, shape \in BodyShapes :
    /\ q.pc = "sent"
    /\ chatReqs' = chatReqs \ {q}
    /\ lastChat' = [req |-> q.req,
                    body |-> IF shape = "gemini" THEN "gemini" ELSE "unreadable"]
    /\ IF CandidateText(ResponseData(shape, "reply")).t = "string"
         THEN /\ conversationHistory' =
                   Append(conversationHistory, Turn("assistant", q.req))
              /\ PostToWebview(Msg("aiResponse", q.req))
         ELSE /\ PostToWebview(Msg("error", q.req))
              /\ UNCHANGED conversationHistory
    /\ UNCHANGED <<apiKey, currentStreamController, toHost, isStreaming,
                   currentTypingDiv, typeIndex, nChat, nClear, stoppedReqs>>

\* axios.post rejects, had the catch block taken the user turn back
ChatFailRollsBack ==
  \E q \in chatReqs :
    /\ q.pc = "sent"
    /\ chatReqs' = chatReqs \ {q}
    /\ lastChat' = [req |-> q.req, body |-> "rejected"]
    /\ conversationHistory' =
         SelectSeq(conversationHistory, LAMBDA turn : turn # Turn("user", q.req))
    /\ PostToWebview(Msg("error", q.req))
    /\ UNCHANGED <<apiKey, currentStreamController, toHost, isStreaming,
                   currentTypingDiv, typeIndex, nChat, nClear, stoppedReqs>>

\* axios.post rejects (network or endpoint error): the catch block posts an error
ChatFail ==
  \E q \in chatReqs :
    /\ q.pc = "sent"
    /\ chatReqs' = chatReqs \ {q}
    /\ lastChat' = [req |-> q.req, body |-> "rejected"]
    /\ PostToWebview(Msg("error", q.req))
    /\ UNCHANGED <<apiKey, conversationHistory, currentStreamController, toHost,
                   isStreaming, currentTypingDiv, typeIndex, nChat, nClear,
                   stoppedReqs>>

\* case "clearChat"
HostClearChat ==
  /\ toHost # <<>>
  /\ Head(toHost).type = "clearChat"
  /\ toHost' = Tail(toHost)
  /\ conversationHistory' = <<>>
  /\ PostToWebview(Msg("clearChat", NoReq))
  /\ UNCHANGED <<apiKey, currentStreamController, chatReqs, isStreaming,
                 currentTypingDiv, typeIndex, nChat, nClear, stoppedReqs, lastChat>>

\* case "stopStream": acts only when currentStreamController is set
HostStopStream ==
  /\ toHost # <<>>
  /\ Head(toHost).type = "stopStream"
  /\ toHost' = Tail(toHost)
  /\ stoppedReqs' = stoppedReqs \cup {q.req : q \in Outstanding}
  /\ IF currentStreamController # NULL
       THEN /\ chatReqs' = {q \in chatReqs : q.req # currentStreamController}
            /\ currentStreamController' = NULL
            /\ PostToWebview(Msg("streamStopped", NoReq))
       ELSE UNCHANGED <<chatReqs, currentStreamController, toWebview>>
  /\ UNCHANGED <<apiKey, conversationHistory, isStreaming, currentTypingDiv,
                 typeIndex, nChat, nClear, lastChat>>

\* webview script: sendMessage()
WebSendMessage ==
  /\ ~isStreaming
  /\ nChat < MaxChat
  /\ nChat' = nChat + 1
  /\ isStreaming' = TRUE
  /\ toHost' = Append(toHost, Msg("sendMessage", nChat + 1))
  /\ UNCHANGED <<apiKey, conversationHistory, currentStreamController, chatReqs,
                 toWebview, currentTypingDiv, typeIndex, nClear, stoppedReqs, lastChat>>

\* webview script: stopStreaming(); the Stop button shows while it has the
\* class "active", which the script sets and removes together with isStreaming
WebStopStreaming ==
  /\ isStreaming
  /\ toHost' = Append(toHost, Msg("stopStream", NoReq))
  /\ isStreaming' = FALSE
  /\ UNCHANGED <<apiKey, conversationHistory, currentStreamController, chatReqs,
                 toWebview, currentTypingDiv, typeIndex, nChat, nClear,
                 stoppedReqs, lastChat>>

\* webview script: clearChat()
WebClearChat ==
  /\ nClear < MaxClear
  /\ nClear' = nClear + 1
  /\ toHost' = Append(toHost, Msg("clearChat", NoReq))
  /\ UNCHANGED <<apiKey, conversationHistory, currentStreamController, chatReqs,
                 toWebview, isStreaming, currentTypingDiv, typeIndex, nChat,
                 stoppedReqs, lastChat>>

\* webview script: the window "message" listener
WebOnMessage ==
  /\ toWebview # <<>>
  /\ toWebview' = Tail(toWebview)
  /\ CASE Head(toWebview).type = "aiResponse" ->
            \* removeLoading(); typeMessage(message.text)
            /\ currentTypingDiv' = Head(toWebview).req
            /\ typeIndex' = 0
            /\ UNCHANGED isStreaming
       [] Head(toWebview).type = "streamStopped" ->
            /\ currentTypingDiv' = NoReq
            /\ isStreaming' = FALSE
            /\ UNCHANGED typeIndex
       [] Head(toWebview).type = "error" ->
            /\ isStreaming' = FALSE
            /\ UNCHANGED <<currentTypingDiv, typeIndex>>
       [] OTHER -> UNCHANGED <<isStreaming, currentTypingDiv, typeIndex>>
  /\ UNCHANGED <<apiKey, conversationHistory, currentStreamController, chatReqs,
                 toHost, nChat, nClear, stoppedReqs, lastChat>>

\* webview script: one run of typeChar(), the timer callback of typeMessage
TypeChar ==
  /\ currentTypingDiv # NoReq
  /\ IF typeIndex < TextLen /\ isStreaming
       THEN /\ typeIndex' = typeIndex + 1
            /\ UNCHANGED currentTypingDiv
       ELSE /\ currentTypingDiv' = NoReq
            /\ UNCHANGED typeIndex
  /\ UNCHANGED <<apiKey, conversationHistory, currentStreamController, chatReqs,
                 toHost, toWebview, isStreaming, nChat, nClear, stoppedReqs, lastChat>>


\* ------------------------------------------------------ JavaScript numbers
\* A number, NaN, undefined, or a non-empty string that is not a number
\* (v is the number's value and 0 otherwise).
JNum(n) == [t |-> "number", v |-> n]
NaN == [t |-> "NaN", v |-> 0]
NonNumericString == [t |-> "string", v |-> 0]

\* truthiness: 0, NaN and undefined are falsy, a non-empty string is truthy
Truthy(x) ==
  CASE x.t = "number" -> x.v # 0
    [] x.t = "string" -> TRUE
    [] OTHER -> FALSE

\* a || b
JsOr(a, b) == IF Truthy(a) THEN a ELSE b

ToNumber(x) == IF x.t = "number" THEN x ELSE NaN

\* a - b and, for two numbers, a + b
JsMinus(a, b) ==
  IF ToNumber(a).t = "NaN" \/ ToNumber(b).t = "NaN" THEN NaN
  ELSE JNum(ToNumber(a).v - ToNumber(b).v)

JsPlus(a, b) ==
  IF ToNumber(a).t = "NaN" \/ ToNumber(b).t = "NaN" THEN NaN
  ELSE JNum(ToNumber(a).v + ToNumber(b).v)

MathMin(a, b) ==
  IF a.t = "NaN" \/ b.t = "NaN" THEN NaN
  ELSE IF a.v <= b.v THEN a ELSE b

MathMax(a, b) ==
  IF a.t = "NaN" \/ b.t = "NaN" THEN NaN
  ELSE IF a.v >= b.v THEN a ELSE b

\* ------------------------------------------------------- coordinate mapping
\* the mapping of reviewCode had it no Math.max(0, ...)
ReviewLineNoClampLow(issue, startLine, lc) ==
  MathMin(JsPlus(JsMinus(JsOr(issue.line, JNum(1)), JNum(1)), JNum(startLine)),
          JNum(lc - 1))

\* reviewCode: Math.max(0, Math.min((issue.line || 1) - 1 + startLine,
\*                                  document.lineCount - 1))
ReviewLine(issue, startLine, lc) ==
  MathMax(JNum(0),
          MathMin(JsPlus(JsMinus(JsOr(issue.line, JNum(1)), JNum(1)), JNum(startLine)),
                  JNum(lc - 1)))

\* the mapping of quickReviewSelection had it no Math.min(..., lineCount - 1)
QuickLineNoClampHigh(issue, startLine, lc) ==
  MathMax(JNum(0),
          JsPlus(JsMinus(JsOr(issue.line, JNum(1)), JNum(1)), JNum(startLine)))

\* quickReviewSelection: the same expression with selection.start.line
QuickLine(issue, startLine, lc) ==
  MathMax(JNum(0),
          MathMin(JsPlus(JsMinus(JsOr(issue.line, JNum(1)), JNum(1)), JNum(startLine)),
                  JNum(lc - 1)))

\* document.lineAt(line) throws "Illegal value for `line`" unless line is an
\* integer in [0, lineCount)
LineAtThrows(line, lc) ==
  ~(line.t = "number" /\ 0 <= line.v /\ line.v < lc)

\* ------------------------------------------------------------ severities
\* reviewCode: Warning unless "error" or "info"
ReviewSeverity(issue) ==
  CASE issue.severity = "error" -> "Error"
    [] issue.severity = "info" -> "Information"
    [] OTHER -> "Warning"

\* quickReviewSelection: Warning unless "error"
QuickSeverity(issue) ==
  IF issue.severity = "error" THEN "Error" ELSE "Warning"

\* ------------------------------------------------------- model responses
\* An issue as the model reports it.  message is its length and the
\* low-value keyword its lowercased text contains ("none" when it has none);
\* a missing message has length 0.
Message(len, kw) == [len |-> len, kw |-> kw]
Issue(line, message, severity) ==
  [line |-> line, message |-> message, severity |-> severity]
NoIssue == Issue(Undefined, Message(0, "none"), "none")

\* the array element null: not an object, so reading a property of it
\* (issue.line, issue.message) throws a TypeError
NullElement == Issue(Undefined, Message(0, "none"), "null")
IsNull(issue) == issue = NullElement

\* The reply text, cut into the pieces the parser tells apart: an opening
\* bracket, a closing bracket, a comma, one JSON object, a run of prose.
\* "obj]" is a JSON object one of whose strings has the character "]" in it;
\* "cut" is the front part of such an object, up to that character.
Tok(k) == [k |-> k, issue |-> NoIssue]
ObjTok(i) == [k |-> "obj", issue |-> i]
ObjRbTok(i) == [k |-> "obj]", issue |-> i]
NullTok == [k |-> "null", issue |-> NullElement]
LB == Tok("[")
RB == Tok("]")
Comma == Tok(",")
Prose == Tok("prose")

LongMsg == Message(MinMsgLen + 20, "none")
ShortMsg == Message(MinMsgLen - 3, "none")
StyleMsg == Message(MinMsgLen + 20, "style")

\* The replies the endpoint is taken to give to a review request.
ModelTexts ==
  << <<Prose>>,
     <<LB, RB>>,
     <<Prose, LB, ObjTok(Issue(JNum(2), LongMsg, "error")), RB, Prose>>,
     <<LB, ObjTok(Issue(JNum(1), LongMsg, "info")), Comma,
           ObjTok(Issue(JNum(MaxLines + 2), LongMsg, "warning")), RB>>,
     <<LB, ObjTok(Issue(NonNumericString, LongMsg, "error")), RB>>,
     <<LB, ObjTok(Issue(JNum(0), LongMsg, "none")), RB>>,
     <<LB, ObjTok(Issue(JNum(1), LongMsg, "error")), Prose, RB>>,
     <<LB, ObjTok(Issue(JNum(2), ShortMsg, "error")), Comma,
           ObjTok(Issue(Undefined, LongMsg, "error")), RB>>,
     <<LB, ObjTok(Issue(JNum(-1), StyleMsg, "warning")), RB>>,
     <<LB, ObjTok(Issue(JNum(1), LongMsg, "error")), Comma, NullTok, RB>> >>

\* aiResponse.match(/\[[\s\S]*\]/): from the first "[" that has a "]" after
\* it to the last "]" of the text; <<>> stands for null (no match)
HasClose(tok) == tok.k \in {"]", "obj]"}

OpenAt(t) ==
  {i \in 1..Len(t) : t[i].k = "[" /\ \E j \in (i + 1)..Len(t) : HasClose(t[j])}

Least(S) == CHOOSE x \in S : \A y \in S : x <= y
Greatest(S) == CHOOSE x \in S : \A y \in S : x >= y

\* the characters of t from piece i to the "]" of piece j
Matched(t, i, j) ==
  IF t[j].k = "]" THEN SubSeq(t, i, j)
  ELSE Append(SubSeq(t, i, j - 1), Tok("cut"))

GreedyMatch(t) ==
  IF OpenAt(t) = {} THEN <<>>
  ELSE Matched(t, Least(OpenAt(t)),
               Greatest({j \in 1..Len(t) : HasClose(t[j])}))

\* aiResponse.match(/\[[\s\S]*?\]/): to the first "]" after that "["
LazyMatch(t) ==
  IF OpenAt(t) = {} THEN <<>>
  ELSE Matched(t, Least(OpenAt(t)),
               Least({j \in (Least(OpenAt(t)) + 1)..Len(t) : HasClose(t[j])}))

\* JSON.parse of a matched piece: an array of objects or nulls separated by
\* commas, or a SyntaxError (ok = FALSE)
JsonParse(m) ==
  LET inner == SubSeq(m, 2, Len(m) - 1)
      wellFormed ==
        /\ Len(m) >= 2
        /\ m[1].k = "[" /\ m[Len(m)].k = "]"
        /\ \/ inner = <<>>
           \/ /\ Len(inner) % 2 = 1
              /\ \A i \in 1..Len(inner) :
                   IF i % 2 = 1 THEN inner[i].k \in {"obj", "obj]", "null"}
                                ELSE inner[i].k = ","
  IN IF wellFormed
       THEN [ok |-> TRUE,
             arr |-> [i \in 1..((Len(inner) + 1) \div 2) |-> inner[2 * i - 1].issue]]
       ELSE [ok |-> FALSE, arr |-> <<>>]

\* reviewCode lines 1098-1105: issues stays [] without a match or on a
\* parse error
ParseReview(text) ==
  IF GreedyMatch(text) # <<>> /\ JsonParse(GreedyMatch(text)).ok
    THEN JsonParse(GreedyMatch(text)).arr
    ELSE <<>>

\* quickReviewSelection's filter callback
IsCritical(issue) ==
  /\ issue.message.len > 0
  /\ issue.message.len > MinMsgLen
  /\ issue.message.kw \notin {"comment", "naming", "style"}

\* quickReviewSelection lines 225-243: the filter runs inside the try, so
\* a TypeError of its callback on a null element leaves issues as []
ParseQuick(text) ==
  IF LazyMatch(text) # <<>> /\ JsonParse(LazyMatch(text)).ok
    THEN IF \E i \in 1..Len(JsonParse(LazyMatch(text)).arr) :
              IsNull(JsonParse(LazyMatch(text)).arr[i])
           THEN <<>>
           ELSE SelectSeq(JsonParse(LazyMatch(text)).arr, IsCritical)
    ELSE <<>>

\* ------------------------------------------------------------ review state
VARIABLES
  lineCount,      \* document.lineCount
  languageId,     \* document.languageId
  docOpen,        \* TRUE while the document is open
  activeDoc,      \* TRUE when the active editor shows the document
  diagnostics,    \* diagnosticCollection.get(document.uri), in order
  ops,            \* suspended commands (review, quick review, fixes)
  nOps,           \* commands started so far
  nDiags,         \* Diagnostic objects constructed so far (object identity)
  lastEvent       \* how the latest command ended, read by the properties only

reviewVars == <<lineCount, languageId, docOpen, activeDoc, diagnostics, ops, nOps,
                nDiags, lastEvent>>

\* the callbacks that run on one issue, taken alone: an issue, an excerpt
\* start, a line count, and what the filter callback or the map callback of
\* one of the two commands made of them
VARIABLES mapIssue, mapStart, mapLc, mapOut

mapVars == <<mapIssue, mapStart, mapLc, mapOut>>

\* the parsers taken alone: a reply text and what the parser of one of the
\* two commands made of it
VARIABLES parseText, parseOut

parseVars == <<parseText, parseOut>>

vars == <<chatVars, reviewVars, mapVars, parseVars>>

\* lines of the text a fix or refactoring puts in, and the diagnostics a
\* quick review may grow the set to
MaxFixLines == MaxLines
MaxDiags == 2 * MaxOps

supportedLanguages ==
  {"javascript", "typescript", "python", "java", "cpp", "c", "go", "rust"}

Diag(id, line, severity, message) ==
  [id |-> id, line |-> line, severity |-> severity, message |-> message]
NoDiag == Diag(0, 0, "Warning", Message(0, "none"))

\* kind and outcome of the command that ended last, the body of the reply
\* it got ("none" without a reply) and the reply's text (an index into
\* ModelTexts, 0 when no text was read); starting a command resets it
Event(kind, outcome, body, text) ==
  [kind |-> kind, outcome |-> outcome, body |-> body, text |-> text]
NoEvent == Event("none", "none", "none", 0)

\* the selections of the document: whole lines startLine..endLine
Selections == {s \in (0..(lineCount - 1)) \X (0..(lineCount - 1)) : s[1] <= s[2]}

\* lines 329-338 of applyAIFix: the context range around the diagnostic's line
FixContextRange(line, lc) ==
  <<IF line - FixContext > 0 THEN line - FixContext ELSE 0,
    IF line + FixContext < lc - 1 THEN line + FixContext ELSE lc - 1>>

\* document.getText(new vscode.Range(startLine, 0, endLine, 0)): the lines
\* whose text the excerpt holds; the range ends at column 0 of endLine, so
\* nothing of that line is in it
RangeLines(startLine, endLine) == startLine..(endLine - 1)

\* A command once getApiKey has returned the key, up to its axios.post.
\* applyAIFix first reads document.lineAt(diagnostic.range.start.line), which
\* throws into its catch block when the document has no such line, and
\* takes the context range; rest is the other suspended commands and ev the
\* event to keep when nothing fails.
Proceed(o, rest, ev) ==
  IF o.kind = "applyAIFix" /\ LineAtThrows(JNum(o.diag.line), lineCount)
    THEN /\ ops' = rest
         /\ lastEvent' = Event(o.kind, "error", "none", 0)
    ELSE /\ ops' = rest \cup
              {IF o.kind = "applyAIFix"
                 THEN [o EXCEPT !.pc = "sent",
                                !.startLine = FixContextRange(o.diag.line, lineCount)[1],
                                !.endLine = FixContextRange(o.diag.line, lineCount)[2]]
                 ELSE [o EXCEPT !.pc = "sent"]}
         /\ lastEvent' = ev

\* A command up to its first suspension.  The commands of a run are
\* numbered from 1; a command that already waits when the run begins has
\* number 0 and is not counted against MaxInFlight.  startLine is the excerpt's first
\* line; endLine is kept for the commands that later replace the selection.
\* await getApiKey() returns at once when the key is configured and waits
\* for the input box otherwise.
Begin(kind, code, startLine, endLine, diag) ==
  LET o == [op |-> nOps + 1, kind |-> kind, pc |-> "prompt", code |-> code,
            startLine |-> startLine, endLine |-> endLine, diag |-> diag]
  IN /\ nOps < MaxOps
     /\ Cardinality({p \in ops : p.op > 0}) < MaxInFlight
     /\ nOps' = nOps + 1
     /\ IF apiKey
          THEN Proceed(o, ops, NoEvent)
          ELSE /\ ops' = ops \cup {o}
               /\ lastEvent' = NoEvent
     /\ UNCHANGED <<apiKey, lineCount, languageId, docOpen, activeDoc,
                    diagnostics, nDiags>>

End(o, outcome, body, text) ==
  /\ ops' = ops \ {o}
  /\ lastEvent' = Event(o.kind, outcome, body, text)

\* document.getText(): a document of one line may hold no character at all
DocumentCodes == IF lineCount = 1 THEN {"text", "empty"} ELSE {"text"}

\* reviewDocument, had it no test of the language
reviewDocumentAnyLanguage ==
  \E code \in DocumentCodes : Begin("review", code, 0, 0, NoDiag)

\* reviewDocument: an unsupported language only shows a message; the text
\* goes to reviewCode as it is
reviewDocument ==
  IF languageId \in supportedLanguages
    THEN \E code \in DocumentCodes : Begin("review", code, 0, 0, NoDiag)
    ELSE /\ nOps < MaxOps
         /\ nOps' = nOps + 1
         /\ lastEvent' = Event("review", "unsupported", "none", 0)
         /\ UNCHANGED <<apiKey, lineCount, languageId, docOpen, activeDoc,
                        diagnostics, ops, nDiags>>

\* command reviewFile
reviewCurrentFile ==
  /\ activeDoc
  /\ reviewDocument

\* onDidSaveTextDocument with reviewOnSave set
ReviewOnSave ==
  /\ docOpen
  /\ reviewDocument

\* if (!code): the selection holds no text, the command shows a warning
\* and returns
NoCode(kind) ==
  /\ nOps < MaxOps
  /\ nOps' = nOps + 1
  /\ lastEvent' = Event(kind, "nocode", "none", 0)
  /\ UNCHANGED <<apiKey, lineCount, languageId, docOpen, activeDoc,
                 diagnostics, ops, nDiags>>

\* command reviewSelection: reviewCode(document, code, selection.start.line)
reviewSelectedCode ==
  /\ activeDoc
  /\ \/ \E s \in Selections : Begin("review", "text", s[1], 0, NoDiag)
     \/ NoCode("review")

\* vscode.window.activeTextEditor is set: it is when the active editor
\* shows the document, and otherwise another editor may be active or none
ActiveEditors == IF activeDoc THEN {TRUE} ELSE BOOLEAN

\* a TypeError thrown before the try block of the command: the command's
\* promise rejects and nothing of the extension handles it
Unhandled(kind) ==
  /\ nOps < MaxOps
  /\ nOps' = nOps + 1
  /\ lastEvent' = Event(kind, "unhandled", "none", 0)
  /\ UNCHANGED <<apiKey, lineCount, languageId, docOpen, activeDoc,
                 diagnostics, ops, nDiags>>

\* command quickReviewSelection(document, selection): from the CodeLens,
\* with both arguments, or run by its name, with none.  Line 163 reads
\* editor.selection when there is no editor or no selection, and line 166
\* document.getText.
quickReviewSelection ==
  \E editor \in ActiveEditors, args \in {"lens", "none"} :
    /\ args = "lens" => docOpen
    /\ IF ~editor \/ args = "none"
         THEN Unhandled("quick")
         ELSE \/ \E s \in Selections : Begin("quick", "text", s[1], 0, NoDiag)
              \/ NoCode("quick")

\* command applyAIFix(document, diagnostic), from the code action of a
\* diagnostic of the collection
applyAIFix ==
  /\ docOpen
  /\ \E i \in 1..Len(diagnostics) :
       Begin("applyAIFix", "text", 0, 0, diagnostics[i])

\* commands fixCode and refactorCode: callAI on the selected code
fixCode ==
  /\ activeDoc
  /\ \/ \E s \in Selections : Begin("callAI", "text", s[1], s[2], NoDiag)
     \/ NoCode("callAI")

refactorCode ==
  /\ activeDoc
  /\ \/ \E s \in Selections : Begin("callAI", "text", s[1], s[2], NoDiag)
     \/ NoCode("callAI")

\* the commands of these kinds that wait for the reply to their request
Sent(kinds) == {o \in ops : o.kind \in kinds /\ o.pc = "sent"}

\* the input box of getApiKey is answered with a key
KeyEntered ==
  \E o \in ops :
    /\ o.pc = "prompt"
    /\ apiKey' = TRUE
    /\ Proceed(o, ops \ {o}, lastEvent)
    /\ UNCHANGED <<lineCount, languageId, docOpen, activeDoc, diagnostics, nOps,
                   nDiags>>

\* the input box is dismissed: getApiKey returns null and the command returns
KeyDismissed ==
  \E o \in ops :
    /\ o.pc = "prompt"
    /\ End(o, "nokey", "none", 0)
    /\ UNCHANGED <<apiKey, lineCount, languageId, docOpen, activeDoc, diagnostics, nOps,
                   nDiags>>

\* axios.post rejects, had the catch block emptied the document's set
RequestFailsClearsSet ==
  \E o \in Sent({"review", "quick", "applyAIFix", "callAI"}) :
    /\ End(o, "failed", "none", 0)
    /\ diagnostics' = <<>>
    /\ UNCHANGED <<apiKey, lineCount, languageId, docOpen, activeDoc, nOps,
                   nDiags>>

\* axios.post rejects: the catch block of the command shows one error message
RequestFails ==
  \E o \in Sent({"review", "quick", "applyAIFix", "callAI"}) :
    /\ End(o, "failed", "none", 0)
    /\ UNCHANGED <<apiKey, lineCount, languageId, docOpen, activeDoc, diagnostics, nOps,
                   nDiags>>

\* issues.map(...) of reviewCode: one Diagnostic per issue, on the whole line
MapReview(issues, startLine, lc, firstId) ==
  [i \in 1..Len(issues) |->
     Diag(firstId + i, ReviewLine(issues[i], startLine, lc).v,
          ReviewSeverity(issues[i]), issues[i].message)]

\* the map callback throws on a null element (issue.line) and on a line
\* document.lineAt does not take
MapReviewThrows(issues, startLine, lc) ==
  \E i \in 1..Len(issues) :
    \/ IsNull(issues[i])
    \/ LineAtThrows(ReviewLine(issues[i], startLine, lc), lc)

\* issues.map(...) of quickReviewSelection
MapQuick(issues, startLine, lc, firstId) ==
  [i \in 1..Len(issues) |->
     Diag(firstId + i, QuickLine(issues[i], startLine, lc).v,
          QuickSeverity(issues[i]), issues[i].message)]

MapQuickThrows(issues, startLine, lc) ==
  \E i \in 1..Len(issues) :
    \/ IsNull(issues[i])
    \/ LineAtThrows(QuickLine(issues[i], startLine, lc), lc)

\* the new list put behind the stored one
SetReplaceKeepsOld(old, new) == old \o new

\* diagnosticCollection.set(document.uri, diagnostics)
SetReplace(old, new) == new

\* [...existingDiagnostics, ...diagnostics]
SetAppend(old, new) == old \o new

\* the issues each reply of ModelTexts parses to
ReviewIssues == [t \in 1..Len(ModelTexts) |-> ParseReview(ModelTexts[t])]
QuickIssues == [t \in 1..Len(ModelTexts) |-> ParseQuick(ModelTexts[t])]

\* the texts a body of this shape can carry: only a body the text can be
\* read from carries one
ReplyTexts(shape) ==
  IF CandidateText(ResponseData(shape, "text")).t = "string"
    THEN 1..Len(ModelTexts)
    ELSE {1}

\* reviewCode after the reply, had it no try around JSON.parse: the
\* SyntaxError reaches the outer catch block
reviewCodeReplyNoInnerTry ==
  \E o \in Sent({"review"}), shape \in BodyShapes : \E t \in ReplyTexts(shape) :
    /\ IF CandidateText(ResponseData(shape, "text")).t # "string"
         THEN /\ End(o, "error", shape, 0)
              /\ UNCHANGED <<diagnostics, nDiags>>
         ELSE IF \/ /\ GreedyMatch(ModelTexts[t]) # <<>>
                    /\ ~JsonParse(GreedyMatch(ModelTexts[t])).ok
                 \/ MapReviewThrows(ReviewIssues[t], o.startLine, lineCount)
         THEN /\ End(o, "error", shape, t)
              /\ UNCHANGED <<diagnostics, nDiags>>
         ELSE /\ diagnostics' =
                   SetReplace(diagnostics,
                              MapReview(ReviewIssues[t], o.startLine, lineCount, nDiags))
              /\ nDiags' = nDiags + Len(ReviewIssues[t])
              /\ End(o, IF Len(ReviewIssues[t]) = 0 THEN "noissues" ELSE "ok", shape, t)
    /\ UNCHANGED <<apiKey, lineCount, languageId, docOpen, activeDoc, nOps>>

\* reviewCode after the reply: lines 1097-1143.  An exception of the map
\* callback leaves the collection as it was and shows "Review failed"; an
\* empty list shows "No issues found!" and any other "Found n issue(s)".
reviewCodeReply ==
  \E o \in Sent({"review"}), shape \in BodyShapes : \E t \in ReplyTexts(shape) :
    /\ IF CandidateText(ResponseData(shape, "text")).t # "string"
         THEN /\ End(o, "error", shape, 0)
              /\ UNCHANGED <<diagnostics, nDiags>>
         ELSE IF MapReviewThrows(ReviewIssues[t], o.startLine, lineCount)
         THEN /\ End(o, "error", shape, t)
              /\ UNCHANGED <<diagnostics, nDiags>>
         ELSE /\ diagnostics' =
                   SetReplace(diagnostics,
                              MapReview(ReviewIssues[t], o.startLine, lineCount, nDiags))
              /\ nDiags' = nDiags + Len(ReviewIssues[t])
              /\ End(o, IF Len(ReviewIssues[t]) = 0 THEN "noissues" ELSE "ok", shape, t)
    /\ UNCHANGED <<apiKey, lineCount, languageId, docOpen, activeDoc, nOps>>

\* quickReviewSelection after the reply, had it stored the empty list as
\* reviewCode does
quickReviewReplyStoresEmpty ==
  \E o \in Sent({"quick"}), shape \in BodyShapes : \E t \in ReplyTexts(shape) :
    /\ Len(diagnostics) + Len(QuickIssues[t]) <= MaxDiags
    /\ IF CandidateText(ResponseData(shape, "text")).t # "string"
         THEN /\ End(o, "error", shape, 0)
              /\ UNCHANGED <<diagnostics, nDiags>>
         ELSE IF Len(QuickIssues[t]) = 0
         THEN /\ End(o, "noissues", shape, t)
              /\ diagnostics' = <<>>
              /\ UNCHANGED nDiags
         ELSE IF MapQuickThrows(QuickIssues[t], o.startLine, lineCount)
         THEN /\ End(o, "error", shape, t)
              /\ UNCHANGED <<diagnostics, nDiags>>
         ELSE /\ diagnostics' =
                   SetAppend(diagnostics,
                             MapQuick(QuickIssues[t], o.startLine, lineCount, nDiags))
              /\ nDiags' = nDiags + Len(QuickIssues[t])
              /\ End(o, "ok", shape, t)
    /\ UNCHANGED <<apiKey, lineCount, languageId, docOpen, activeDoc, nOps>>

\* quickReviewSelection after the reply: lines 224-285
quickReviewReply ==
  \E o \in Sent({"quick"}), shape \in BodyShapes : \E t \in ReplyTexts(shape) :
    /\ Len(diagnostics) + Len(QuickIssues[t]) <= MaxDiags
    /\ IF CandidateText(ResponseData(shape, "text")).t # "string"
         THEN /\ End(o, "error", shape, 0)
              /\ UNCHANGED <<diagnostics, nDiags>>
         ELSE IF Len(QuickIssues[t]) = 0
         THEN /\ End(o, "noissues", shape, t)
              /\ UNCHANGED <<diagnostics, nDiags>>
         ELSE IF MapQuickThrows(QuickIssues[t], o.startLine, lineCount)
         THEN /\ End(o, "error", shape, t)
              /\ UNCHANGED <<diagnostics, nDiags>>
         ELSE /\ diagnostics' =
                   SetAppend(diagnostics,
                             MapQuick(QuickIssues[t], o.startLine, lineCount, nDiags))
              /\ nDiags' = nDiags + Len(QuickIssues[t])
              /\ End(o, "ok", shape, t)
    /\ UNCHANGED <<apiKey, lineCount, languageId, docOpen, activeDoc, nOps>>

\* .filter((d) => d !== diagnostic): object identity
RemoveDiagnostic(ds, d) == SelectSeq(ds, LAMBDA x : x.id # d.id)

\* applyAIFix after the reply, had the filter of the set stood outside the
\* test of the active editor
applyAIFixReplyFiltersAlways ==
  \E o \in Sent({"applyAIFix"}), shape \in BodyShapes, k \in 1..MaxFixLines :
    /\ FixCandidateText(ResponseData(shape, "fix")).t # "string" => k = 1
    /\ lineCount + k - 1 <= MaxLines
    /\ IF FixCandidateText(ResponseData(shape, "fix")).t # "string"
         THEN /\ End(o, "error", shape, 0)
              /\ UNCHANGED <<lineCount, diagnostics>>
         ELSE /\ lineCount' = IF activeDoc THEN lineCount + k - 1 ELSE lineCount
              /\ diagnostics' = RemoveDiagnostic(diagnostics, o.diag)
              /\ End(o, IF activeDoc THEN "edited" ELSE "notActive", shape, 0)
    /\ UNCHANGED <<apiKey, languageId, docOpen, activeDoc, nOps, nDiags>>

\* applyAIFix after the reply: lines 373-404.  k is the number of lines of
\* the fixed code; it replaces diagnostic.range, one whole line.
applyAIFixReply ==
  \E o \in Sent({"applyAIFix"}), shape \in BodyShapes, k \in 1..MaxFixLines :
    /\ FixCandidateText(ResponseData(shape, "fix")).t # "string" => k = 1
    /\ lineCount + k - 1 <= MaxLines
    /\ IF FixCandidateText(ResponseData(shape, "fix")).t # "string"
         THEN /\ End(o, "error", shape, 0)
              /\ UNCHANGED <<lineCount, diagnostics>>
         ELSE IF activeDoc
         THEN /\ lineCount' = lineCount + k - 1
              /\ diagnostics' = RemoveDiagnostic(diagnostics, o.diag)
              /\ End(o, "edited", shape, 0)
         ELSE /\ End(o, "notActive", shape, 0)
              /\ UNCHANGED <<lineCount, diagnostics>>
    /\ UNCHANGED <<apiKey, languageId, docOpen, activeDoc, nOps, nDiags>>

\* editBuilder.replace(selection, response): the lines of the selection, as
\* far as the document still has them, give way to k lines
ReplaceLines(lc, startLine, endLine, k) ==
  LET s == IF startLine < lc THEN startLine ELSE lc - 1
      e == IF endLine < lc THEN endLine ELSE lc - 1
  IN lc - (e - s + 1) + k

\* fixCode and refactorCode after callAI returned: lines 1181-1186, 1226-1231
callAIReply ==
  \E o \in Sent({"callAI"}), shape \in BodyShapes,
     k \in 1..MaxFixLines :
    /\ CandidateText(ResponseData(shape, "code")).t # "string" => k = 1
    /\ ReplaceLines(lineCount, o.startLine, o.endLine, k) <= MaxLines
    /\ IF CandidateText(ResponseData(shape, "code")).t # "string"
         THEN /\ End(o, "error", shape, 0)
              /\ UNCHANGED lineCount
         ELSE /\ lineCount' = ReplaceLines(lineCount, o.startLine, o.endLine, k)
              /\ End(o, "edited", shape, 0)
    /\ UNCHANGED <<apiKey, languageId, docOpen, activeDoc, diagnostics, nOps,
                   nDiags>>

\* command clearDiagnostics: diagnosticCollection.clear() and a message
clearDiagnostics ==
  /\ diagnostics' = <<>>
  /\ lastEvent' = Event("clear", "cleared", "none", 0)
  /\ UNCHANGED <<apiKey, lineCount, languageId, docOpen, activeDoc, ops, nOps,
                 nDiags>>

\* the user brings another editor, or this one, to the front
ChangeActiveEditor ==
  /\ docOpen
  /\ activeDoc' = ~activeDoc
  /\ UNCHANGED <<apiKey, lineCount, languageId, docOpen, diagnostics, ops, nOps, nDiags,
                 lastEvent>>

\* the user closes the document; activate subscribes to no
\* onDidCloseTextDocument, so nothing of the extension runs
closeDocument ==
  /\ docOpen
  /\ docOpen' = FALSE
  /\ activeDoc' = FALSE
  /\ UNCHANGED <<apiKey, lineCount, languageId, diagnostics, ops, nOps, nDiags,
                 lastEvent>>

\* the user opens the document again, in the active editor
openDocument ==
  /\ ~docOpen
  /\ docOpen' = TRUE
  /\ activeDoc' = TRUE
  /\ UNCHANGED <<apiKey, lineCount, languageId, diagnostics, ops, nOps, nDiags,
                 lastEvent>>

\* ------------------------------------------------------- specifications
\* the chat panel at rest
ChatIdle ==
  /\ apiKey \in BOOLEAN
  /\ currentStreamController = NULL
  /\ chatReqs = {}
  /\ toHost = <<>>
  /\ toWebview = <<>>
  /\ isStreaming = FALSE
  /\ currentTypingDiv = NoReq
  /\ typeIndex = 0
  /\ nClear = 0
  /\ stoppedReqs = {}
  /\ lastChat = NoChat

ChatInit ==
  /\ ChatIdle
  /\ conversationHistory = <<>>
  /\ nChat = 0

ReviewIdle ==
  /\ diagnostics = <<>>
  /\ ops = {}
  /\ nOps = 0
  /\ nDiags = 0
  /\ lastEvent = NoEvent

ReviewInit ==
  /\ lineCount \in 1..MaxLines
  /\ languageId = "javascript"
  /\ docOpen = TRUE
  /\ activeDoc \in BOOLEAN
  /\ ReviewIdle

ChatNext ==
  \/ HostSendMessage /\ UNCHANGED <<reviewVars, mapVars, parseVars>>
  \/ ChatKeyEntered /\ UNCHANGED <<reviewVars, mapVars, parseVars>>
  \/ ChatKeyDismissed /\ UNCHANGED <<reviewVars, mapVars, parseVars>>
  \/ ChatReply /\ UNCHANGED <<reviewVars, mapVars, parseVars>>
  \/ ChatFail /\ UNCHANGED <<reviewVars, mapVars, parseVars>>
  \/ HostClearChat /\ UNCHANGED <<reviewVars, mapVars, parseVars>>
  \/ HostStopStream /\ UNCHANGED <<reviewVars, mapVars, parseVars>>
  \/ WebSendMessage /\ UNCHANGED <<reviewVars, mapVars, parseVars>>
  \/ WebStopStreaming /\ UNCHANGED <<reviewVars, mapVars, parseVars>>
  \/ WebClearChat /\ UNCHANGED <<reviewVars, mapVars, parseVars>>
  \/ WebOnMessage /\ UNCHANGED <<reviewVars, mapVars, parseVars>>
  \/ TypeChar /\ UNCHANGED <<reviewVars, mapVars, parseVars>>

\* the chat panel of part_000: handleChatMessage is the only handler that
\* differs in what it does to the chat state
ChatNextOld ==
  \/ HostSendMessageOld /\ UNCHANGED <<reviewVars, mapVars, parseVars>>
  \/ ChatKeyEnteredOld /\ UNCHANGED <<reviewVars, mapVars, parseVars>>
  \/ ChatKeyDismissed /\ UNCHANGED <<reviewVars, mapVars, parseVars>>
  \/ ChatReply /\ UNCHANGED <<reviewVars, mapVars, parseVars>>
  \/ ChatFail /\ UNCHANGED <<reviewVars, mapVars, parseVars>>
  \/ HostClearChat /\ UNCHANGED <<reviewVars, mapVars, parseVars>>
  \/ HostStopStream /\ UNCHANGED <<reviewVars, mapVars, parseVars>>
  \/ WebSendMessage /\ UNCHANGED <<reviewVars, mapVars, parseVars>>
  \/ WebStopStreaming /\ UNCHANGED <<reviewVars, mapVars, parseVars>>
  \/ WebClearChat /\ UNCHANGED <<reviewVars, mapVars, parseVars>>
  \/ WebOnMessage /\ UNCHANGED <<reviewVars, mapVars, parseVars>>
  \/ TypeChar /\ UNCHANGED <<reviewVars, mapVars, parseVars>>

chatOnly == <<conversationHistory, currentStreamController, chatReqs, toHost,
              toWebview, isStreaming, currentTypingDiv, typeIndex, nChat, nClear,
              stoppedReqs, lastChat>>

ReviewNext ==
  \/ reviewCurrentFile /\ UNCHANGED <<chatOnly, mapVars, parseVars>>
  \/ ReviewOnSave /\ UNCHANGED <<chatOnly, mapVars, parseVars>>
  \/ reviewSelectedCode /\ UNCHANGED <<chatOnly, mapVars, parseVars>>
  \/ quickReviewSelection /\ UNCHANGED <<chatOnly, mapVars, parseVars>>
  \/ applyAIFix /\ UNCHANGED <<chatOnly, mapVars, parseVars>>
  \/ fixCode /\ UNCHANGED <<chatOnly, mapVars, parseVars>>
  \/ refactorCode /\ UNCHANGED <<chatOnly, mapVars, parseVars>>
  \/ KeyEntered /\ UNCHANGED <<chatOnly, mapVars, parseVars>>
  \/ KeyDismissed /\ UNCHANGED <<chatOnly, mapVars, parseVars>>
  \/ RequestFails /\ UNCHANGED <<chatOnly, mapVars, parseVars>>
  \/ reviewCodeReply /\ UNCHANGED <<chatOnly, mapVars, parseVars>>
  \/ quickReviewReply /\ UNCHANGED <<chatOnly, mapVars, parseVars>>
  \/ applyAIFixReply /\ UNCHANGED <<chatOnly, mapVars, parseVars>>
  \/ callAIReply /\ UNCHANGED <<chatOnly, mapVars, parseVars>>
  \/ clearDiagnostics /\ UNCHANGED <<chatOnly, mapVars, parseVars>>
  \/ ChangeActiveEditor /\ UNCHANGED <<chatOnly, mapVars, parseVars>>
  \/ closeDocument /\ UNCHANGED <<chatOnly, mapVars, parseVars>>
  \/ openDocument /\ UNCHANGED <<chatOnly, mapVars, parseVars>>

\* the review commands and what ends them, with the key configured
OverlapNext ==
  \/ reviewCurrentFile /\ UNCHANGED <<chatOnly, mapVars, parseVars>>
  \/ ReviewOnSave /\ UNCHANGED <<chatOnly, mapVars, parseVars>>
  \/ reviewSelectedCode /\ UNCHANGED <<chatOnly, mapVars, parseVars>>
  \/ quickReviewSelection /\ UNCHANGED <<chatOnly, mapVars, parseVars>>
  \/ RequestFails /\ UNCHANGED <<chatOnly, mapVars, parseVars>>
  \/ reviewCodeReply /\ UNCHANGED <<chatOnly, mapVars, parseVars>>
  \/ quickReviewReply /\ UNCHANGED <<chatOnly, mapVars, parseVars>>
  \/ clearDiagnostics /\ UNCHANGED <<chatOnly, mapVars, parseVars>>
  \/ ChangeActiveEditor /\ UNCHANGED <<chatOnly, mapVars, parseVars>>

\* reviewFile and review-on-save, the only commands that go through
\* reviewDocument, with quick review beside them
LanguageNext ==
  \/ reviewCurrentFile /\ UNCHANGED <<chatOnly, mapVars, parseVars>>
  \/ ReviewOnSave /\ UNCHANGED <<chatOnly, mapVars, parseVars>>
  \/ quickReviewSelection /\ UNCHANGED <<chatOnly, mapVars, parseVars>>
  \/ KeyEntered /\ UNCHANGED <<chatOnly, mapVars, parseVars>>
  \/ KeyDismissed /\ UNCHANGED <<chatOnly, mapVars, parseVars>>
  \/ RequestFails /\ UNCHANGED <<chatOnly, mapVars, parseVars>>
  \/ reviewCodeReply /\ UNCHANGED <<chatOnly, mapVars, parseVars>>
  \/ quickReviewReply /\ UNCHANGED <<chatOnly, mapVars, parseVars>>
  \/ ChangeActiveEditor /\ UNCHANGED <<chatOnly, mapVars, parseVars>>

\* the lines an issue can report: missing, not a number, or an integer from
\* below zero to beyond the document
IssueLines ==
  {Undefined, NonNumericString} \cup
  {JNum(n) : n \in (0 - MaxLines - 1)..(2 * MaxLines + 1)}

\* the messages an issue can carry: missing or empty, around the length the
\* filter compares with, with and without a low-value keyword
IssueMessages ==
  {Message(len, kw) : len \in {0} \cup ((MinMsgLen - 1)..(MinMsgLen + 1)),
                      kw \in {"none", "comment", "naming", "style"}}

\* the severities an issue can carry: the three of the prompt, a missing
\* one ("none") and one the prompt does not name
IssueSeverities == {"error", "warning", "info", "none", "critical"}

\* no callback has run yet
MapNone ==
  [by |-> "none", line |-> Undefined, throws |-> FALSE, severity |-> "none",
   kept |-> FALSE]

MapIdle ==
  /\ mapIssue = NoIssue
  /\ mapStart = 0
  /\ mapLc = 1
  /\ mapOut = MapNone

\* the map callback of reviewCode on one issue: the line, whether
\* document.lineAt(line) throws, and the severity
MapOneReview ==
  /\ mapOut.by = "none"
  /\ mapOut' = [by |-> "reviewCode",
                line |-> ReviewLine(mapIssue, mapStart, mapLc),
                throws |-> LineAtThrows(ReviewLine(mapIssue, mapStart, mapLc), mapLc),
                severity |-> ReviewSeverity(mapIssue),
                kept |-> TRUE]
  /\ UNCHANGED <<mapIssue, mapStart, mapLc>>

\* the filter callback of quickReviewSelection on one issue
FilterOneQuick ==
  /\ mapOut.by = "none"
  /\ mapOut' = [MapNone EXCEPT !.by = "filter", !.kept = IsCritical(mapIssue)]
  /\ UNCHANGED <<mapIssue, mapStart, mapLc>>

\* the map callback of quickReviewSelection on one issue that passed its filter
MapOneQuick ==
  /\ mapOut.by = "none"
  /\ IsCritical(mapIssue)
  /\ mapOut' = [by |-> "quickReviewSelection",
                line |-> QuickLine(mapIssue, mapStart, mapLc),
                throws |-> LineAtThrows(QuickLine(mapIssue, mapStart, mapLc), mapLc),
                severity |-> QuickSeverity(mapIssue),
                kept |-> TRUE]
  /\ UNCHANGED <<mapIssue, mapStart, mapLc>>

MapperNext ==
  \/ MapOneReview /\ UNCHANGED <<chatVars, reviewVars, parseVars>>
  \/ FilterOneQuick /\ UNCHANGED <<chatVars, reviewVars, parseVars>>
  \/ MapOneQuick /\ UNCHANGED <<chatVars, reviewVars, parseVars>>

\* the pieces of the texts given to the parsers: every piece carries the
\* same issue, which passes the quick-review filter
TextIssue == Issue(JNum(1), LongMsg, "error")
TextTokens == {LB, RB, Comma, Prose, ObjTok(TextIssue), ObjRbTok(TextIssue)}

\* the sequences of 0..n elements of S
SeqsUpTo(S, n) == UNION {[1..k -> S] : k \in 0..n}

ParseNone == [by |-> "none", issues |-> <<>>]

ParseIdle ==
  /\ parseText = <<>>
  /\ parseOut = ParseNone

\* lines 1098-1105 of reviewCode on one text
ParseOneReview ==
  /\ parseOut.by = "none"
  /\ parseOut' = [by |-> "reviewCode", issues |-> ParseReview(parseText)]
  /\ UNCHANGED parseText

\* lines 225-243 of quickReviewSelection on one text
ParseOneQuick ==
  /\ parseOut.by = "none"
  /\ parseOut' = [by |-> "quickReviewSelection", issues |-> ParseQuick(parseText)]
  /\ UNCHANGED parseText

ParserNext ==
  \/ ParseOneReview /\ UNCHANGED <<chatVars, reviewVars, mapVars>>
  \/ ParseOneQuick /\ UNCHANGED <<chatVars, reviewVars, mapVars>>

\* the chat panel alone, with one editor that stays as it is
InitChat ==
  /\ ChatInit
  /\ lineCount = 1 /\ languageId = "javascript" /\ docOpen = TRUE /\ activeDoc = TRUE
  /\ ReviewIdle
  /\ MapIdle
  /\ ParseIdle

SpecChat == InitChat /\ [][ChatNext]_vars

\* the chat panel of part_000 alone
SpecChatOld == InitChat /\ [][ChatNextOld]_vars

\* A conversation of n turns held earlier: the user's messages, each but
\* possibly the last one answered; its requests have the ids -1, -2, ...
PastHistory(n) ==
  [i \in 1..n |-> Turn(IF i % 2 = 1 THEN "user" ELSE "assistant", 0 - ((i + 1) \div 2))]

\* the chat panel after such a conversation, with one more message to send
InitWindow ==
  /\ ChatIdle
  /\ conversationHistory \in {PastHistory(n) : n \in 0..MaxHist}
  /\ nChat = MaxChat - 1
  /\ lineCount = 1 /\ languageId = "javascript" /\ docOpen = TRUE /\ activeDoc = TRUE
  /\ ReviewIdle
  /\ MapIdle
  /\ ParseIdle

SpecWindow == InitWindow /\ [][ChatNext]_vars

\* the editor commands alone, with the chat panel closed
InitReview ==
  /\ ChatInit
  /\ ReviewInit
  /\ MapIdle
  /\ ParseIdle

SpecReview == InitReview /\ [][ReviewNext]_vars

\* document.languageId: the languages of the list and some that are not
Languages == supportedLanguages \cup {"markdown", "plaintext", "javascriptreact"}

\* a document of any of these languages
InitLanguage ==
  /\ ChatInit
  /\ lineCount \in 1..MaxLines
  /\ languageId \in Languages
  /\ docOpen = TRUE
  /\ activeDoc \in BOOLEAN
  /\ ReviewIdle
  /\ MapIdle
  /\ ParseIdle

SpecLanguage == InitLanguage /\ [][LanguageNext]_vars

\* the editor commands while a review or quick review started before,
\* with the key configured, still waits for the reply to its request
InitOverlap ==
  /\ ChatInit
  /\ apiKey = TRUE
  /\ lineCount \in 1..MaxLines
  /\ languageId = "javascript"
  /\ docOpen = TRUE
  /\ activeDoc \in BOOLEAN
  /\ \E kind \in {"review", "quick"}, s \in 0..(lineCount - 1) :
       ops = {[op |-> 0, kind |-> kind, pc |-> "sent", code |-> "text",
               startLine |-> s, endLine |-> 0, diag |-> NoDiag]}
  /\ diagnostics = <<>>
  /\ nOps = 0
  /\ nDiags = 0
  /\ lastEvent = NoEvent
  /\ MapIdle
  /\ ParseIdle

SpecOverlap == InitOverlap /\ [][OverlapNext]_vars

\* the callbacks alone, on every issue, excerpt start (a selection start may
\* lie beyond a document that has shrunk since) and line count
InitMapper ==
  /\ ChatInit
  /\ lineCount = 1 /\ languageId = "javascript" /\ docOpen = TRUE /\ activeDoc = TRUE
  /\ ReviewIdle
  /\ mapIssue \in {Issue(l, m, s) : l \in IssueLines, m \in IssueMessages,
                                     s \in IssueSeverities}
  /\ mapStart \in 0..MaxLines
  /\ mapLc \in 1..MaxLines
  /\ mapOut = MapNone
  /\ ParseIdle

SpecMapper == InitMapper /\ [][MapperNext]_vars

\* the parsers alone, on every text of up to MaxToks pieces
InitParser ==
  /\ ChatInit
  /\ lineCount = 1 /\ languageId = "javascript" /\ docOpen = TRUE /\ activeDoc = TRUE
  /\ ReviewIdle
  /\ MapIdle
  /\ parseText \in SeqsUpTo(TextTokens, MaxToks)
  /\ parseOut = ParseNone

SpecParser == InitParser /\ [][ParserNext]_vars

Next == ChatNext \/ ReviewNext \/ MapperNext \/ ParserNext
Spec == InitReview /\ [][Next]_vars

\* ---------------------------------------------------------------- claims
\* the host takes a stopStream message off its queue
StopStreamHandled ==
  /\ toHost # <<>>
  /\ Head(toHost).type = "stopStream"
  /\ toHost' = Tail(toHost)

\* C1: a chat request that was outstanding when stopStream was handled gets
\* no assistant turn in conversationHistory, also once its reply arrives.
C1_NoAssistantTurnAfterStop ==
  \A i \in 1..Len(conversationHistory) :
    conversationHistory[i].role = "assistant"
      => conversationHistory[i].req \notin stoppedReqs

\* C2: whenever the host handles stopStream while a chat request is
\* outstanding, it posts the streamStopped notice to the webview and no
\* request is outstanding afterwards.
C2_StopPostsNoticeAndIdles ==
  [][(StopStreamHandled /\ Outstanding # {})
       => /\ toWebview' = Append(toWebview, Msg("streamStopped", NoReq))
          /\ Outstanding' = {}]_vars

\* C3: no aiResponse is posted to the webview for a request that was
\* cancelled with stopStream.
C3_NoLateSuccess ==
  \A i \in 1..Len(toWebview) :
    toWebview[i].type = "aiResponse" => toWebview[i].req \notin stoppedReqs

\* the command o ends in this step
Ends(o) == o \in ops /\ \A p \in ops' : p.op # o.op

\* C4: when applyAIFix for a diagnostic D of the active document gets the
\* endpoint's reply, D is gone from the set afterwards and the other
\* diagnostics are all there, unchanged and in the same order.
C4_FixRemovesExactlyD ==
  [][\A o \in ops :
       (o.kind = "applyAIFix" /\ Ends(o) /\ lastEvent'.body = "gemini" /\ activeDoc)
         => diagnostics' = SelectSeq(diagnostics, LAMBDA d : d.id # o.diag.id)]_vars

\* C5: every stored diagnostic is on a line of the document as it is now.
C5_DiagnosticsWithinDocument ==
  \A i \in 1..Len(diagnostics) :
    0 <= diagnostics[i].line /\ diagnostics[i].line < lineCount

Clamp(x, lo, hi) == IF x < lo THEN lo ELSE IF x > hi THEN hi ELSE x

\* the mapping of either command has been applied to the issue
Mapped == mapOut.by \in {"reviewCode", "quickReviewSelection"}

\* C6: for an issue whose line is zero, negative, missing or larger than the
\* document length, and any excerpt start, the line either command computes
\* is an integer of [0, lineCount), so that lineAt accepts it.
C6_OddLinesLandInDocument ==
  (/\ Mapped
   /\ \/ mapIssue.line.t = "undefined"
      \/ mapIssue.line.t = "number"
           /\ (mapIssue.line.v <= 0 \/ mapIssue.line.v > mapLc))
    => /\ mapOut.line.t = "number"
       /\ 0 <= mapOut.line.v /\ mapOut.line.v < mapLc
       /\ ~mapOut.throws

\* a line beyond the document, reported for an excerpt that does not start
\* at the top, has been mapped by quickReviewSelection to the last line
C6_Witness ==
  /\ mapOut.by = "quickReviewSelection"
  /\ mapIssue.line = JNum(2 * MaxLines + 1)
  /\ mapStart = 1
  /\ mapLc = MaxLines
  /\ mapOut.line = JNum(MaxLines - 1)

\* C7: an issue whose line is missing or is a string that is not a number is
\* treated as line 1: it lands on clamp(excerptStart, 0, lineCount - 1) and
\* nothing is raised.
C7_MissingOrNonNumericIsLineOne ==
  (Mapped /\ mapIssue.line.t \in {"undefined", "string"})
    => /\ ~mapOut.throws
       /\ mapOut.line = JNum(Clamp(mapStart, 0, mapLc - 1))

\* C8 as stated: for every integer line L and excerpt start S the line is
\* clamp(L - 1 + S, 0, lineCount - 1).
C8_EveryIntegerLine ==
  (Mapped /\ mapIssue.line.t = "number")
    => mapOut.line = JNum(Clamp(mapIssue.line.v - 1 + mapStart, 0, mapLc - 1))

\* C8 amended: for every integer line L other than 0 the line is
\* clamp(L - 1 + S, 0, lineCount - 1); a line of 0 is taken as line 1 and
\* gives clamp(S, 0, lineCount - 1).
C8_NonZeroIntegerLine ==
  (Mapped /\ mapIssue.line.t = "number")
    => mapOut.line =
         JNum(Clamp((IF mapIssue.line.v = 0 THEN 1 ELSE mapIssue.line.v) - 1 + mapStart,
                    0, mapLc - 1))

\* line 1 of an excerpt that starts on line 1 has been mapped by reviewCode
\* to line 1 of the document, unclamped
C8_Witness ==
  /\ mapOut.by = "reviewCode"
  /\ mapIssue.line = JNum(1)
  /\ mapStart = 1
  /\ mapLc = MaxLines
  /\ mapOut.line = JNum(1)

\* C9: after reviewCode has read the model's reply, the diagnostic set is
\* the list made from that reply: one diagnostic per issue of the reply and
\* none of the objects that were there before.
C9_ReviewReplacesSet ==
  [][\A o \in ops :
       (o.kind = "review" /\ Ends(o) /\ lastEvent'.body = "gemini"
        /\ lastEvent'.text # 0)
         => /\ Len(diagnostics') = Len(ReviewIssues[lastEvent'.text])
            /\ \A i \in 1..Len(diagnostics') : diagnostics'[i].id > nDiags]_vars

\* C10: after a quick review whose reply has k >= 1 issues that pass the
\* filter, the set is the set before followed by k new diagnostics.
C10_QuickAppendsSurvivors ==
  [][\A o \in ops :
       (o.kind = "quick" /\ Ends(o) /\ lastEvent'.body = "gemini"
        /\ lastEvent'.text # 0 /\ Len(QuickIssues[lastEvent'.text]) >= 1)
         => /\ Len(diagnostics') =
                 Len(diagnostics) + Len(QuickIssues[lastEvent'.text])
            /\ SubSeq(diagnostics', 1, Len(diagnostics)) = diagnostics
            /\ \A i \in (Len(diagnostics) + 1)..Len(diagnostics') :
                 diagnostics'[i].id > nDiags]_vars

\* C11: in both review paths the severity of the diagnostic is Error for
\* the raw value "error", Information for "info" and Warning for every
\* other value, a missing one included.
C11_SeverityMapping ==
  Mapped =>
    mapOut.severity = CASE mapIssue.severity = "error" -> "Error"
                        [] mapIssue.severity = "info" -> "Information"
                        [] OTHER -> "Warning"

\* C12: the quick-review filter discards an issue exactly when its message
\* is shorter than 10 characters or contains "comment", "naming" or "style";
\* a message of exactly 10 characters without a keyword is kept.
C12_FilterDiscards ==
  mapOut.by = "filter" =>
    (~mapOut.kept <=> \/ mapIssue.message.len < 10
                      \/ mapIssue.message.kw \in {"comment", "naming", "style"})

\* the arrays of the valid JSON arrays that a text contains
ArraysIn(t) ==
  {JsonParse(SubSeq(t, i, j)).arr :
     <<i, j>> \in {p \in (1..Len(t)) \X (1..Len(t)) :
                    p[1] < p[2] /\ JsonParse(SubSeq(t, p[1], p[2])).ok}}

Parsed == parseOut.by \in {"reviewCode", "quickReviewSelection"}

\* C13: when the text holds a valid JSON array somewhere, both parsers give
\* the issues of that array, whatever brackets the prose around it has and
\* also when an element of the array has "]" inside a string.
C13_ExtractsTheArray ==
  (Parsed /\ ArraysIn(parseText) # {})
    => parseOut.issues \in ArraysIn(parseText)

\* the piece of the text that the command's pattern matches
BracketedPiece(kind, text) ==
  IF kind = "review" THEN GreedyMatch(text) ELSE LazyMatch(text)

\* the text has no bracketed piece, or the piece is not valid JSON
Malformed(kind, text) ==
  \/ BracketedPiece(kind, text) = <<>>
  \/ ~JsonParse(BracketedPiece(kind, text)).ok

\* C14: a review or quick review that reads a text without a bracketed
\* piece, or whose bracketed piece is not valid JSON, ends with the 'no
\* issues' outcome and not with an error: the full review stores the empty
\* list and the quick review leaves the set as it is.
C14_MalformedGivesNoIssues ==
  [][\A o \in ops :
       (o.kind \in {"review", "quick"} /\ Ends(o) /\ lastEvent'.text # 0
        /\ Malformed(o.kind, ModelTexts[lastEvent'.text]))
         => /\ lastEvent'.outcome = "noissues"
            /\ diagnostics' = IF o.kind = "review" THEN <<>> ELSE diagnostics]_vars

\* a full review has read a text whose bracketed piece is not valid JSON
\* and has ended with 'no issues'
C14_Witness ==
  /\ lastEvent.kind = "review"
  /\ lastEvent.outcome = "noissues"
  /\ lastEvent.text # 0
  /\ GreedyMatch(ModelTexts[lastEvent.text]) # <<>>
  /\ ~JsonParse(GreedyMatch(ModelTexts[lastEvent.text])).ok

\* C15: a full review whose reply has no JSON array leaves the document
\* with the empty diagnostic set, whatever earlier passes stored, and ends
\* with the 'no issues' outcome of a clean review.
C15_NoArrayClearsSet ==
  [][\A o \in ops :
       (o.kind = "review" /\ Ends(o) /\ lastEvent'.text # 0
        /\ GreedyMatch(ModelTexts[lastEvent'.text]) = <<>>)
         => /\ diagnostics' = <<>>
            /\ lastEvent'.outcome = "noissues"]_vars

\* diagnostics were stored earlier, and a full review that read a text
\* without an array has ended with the set empty
C15_Witness ==
  /\ nDiags > 0
  /\ diagnostics = <<>>
  /\ lastEvent.kind = "review"
  /\ lastEvent.outcome = "noissues"
  /\ lastEvent.text # 0
  /\ GreedyMatch(ModelTexts[lastEvent.text]) = <<>>

\* the requests whose axios.post is made in this step
NewlySent == {q \in Outstanding' : \A p \in Outstanding : p.req # q.req}

\* C16: every chat request carries the last min(6, n) turns of the n-turn
\* history, oldest first, and never more than 6, however long the history.
C16_WindowIsLastSix ==
  [][\A q \in NewlySent :
       LET h == conversationHistory'
           n == Len(h)
           k == IF n < 6 THEN n ELSE 6
       IN /\ Len(q.window) = k
          /\ \A i \in 1..k :
               /\ q.window[i].req = h[n - k + i].req
               /\ q.window[i].role =
                    IF h[n - k + i].role = "assistant" THEN "model" ELSE "user"]_vars

\* a request is outstanding that was sent with 6 turns of a longer history
C16_Witness ==
  \E q \in Outstanding :
    /\ Len(q.window) = 6
    /\ Len(conversationHistory) > 6
    /\ q.window[6] = [role |-> "user", req |-> q.req]

\* C17: when a chat request is sent, the user message that triggered it is
\* in conversationHistory and is the last turn of the window the request
\* carries, whatever other chat events came between.
C17_UserTurnLastInWindow ==
  [][\A q \in NewlySent :
       /\ \E i \in 1..Len(conversationHistory') :
            conversationHistory'[i] = Turn("user", q.req)
       /\ q.window # <<>>
       /\ q.window[Len(q.window)] = [role |-> "user", req |-> q.req]]_vars

\* the axios.post of request q settles in this step
Settles(q) == q \in Outstanding /\ lastChat'.req = q.req

\* C18: when the model request of a send fails, the history is left as it
\* is (the user turn is not taken back and no assistant turn is added) and
\* one error event is posted to the webview.
C18_FailureKeepsUserTurn ==
  [][\A q \in chatReqs :
       (Settles(q) /\ lastChat'.body # "gemini")
         => /\ conversationHistory' = conversationHistory
            /\ toWebview' = Append(toWebview, Msg("error", q.req))]_vars

\* a request was rejected: its user turn is in the history, no assistant
\* turn of it is, and its error event is the last one posted
C18_Witness ==
  /\ lastChat.body = "rejected"
  /\ \E i \in 1..Len(conversationHistory) :
       conversationHistory[i] = Turn("user", lastChat.req)
  /\ \A i \in 1..Len(conversationHistory) :
       conversationHistory[i] # Turn("assistant", lastChat.req)
  /\ toWebview # <<>>
  /\ toWebview[Len(toWebview)] = Msg("error", lastChat.req)

\* C19: when the model request of a send succeeds, one assistant turn with
\* the reply is appended to the history and one aiResponse event is posted
\* to the webview for that send.
C19_SuccessAppendsOneTurn ==
  [][\A q \in chatReqs :
       (Settles(q) /\ lastChat'.body = "gemini")
         => /\ conversationHistory' =
                 Append(conversationHistory, Turn("assistant", q.req))
            /\ toWebview' = Append(toWebview, Msg("aiResponse", q.req))]_vars

\* a request was answered: its assistant turn is the last of the history
\* and occurs once, and its aiResponse event is the last one posted
C19_Witness ==
  /\ lastChat.body = "gemini"
  /\ conversationHistory # <<>>
  /\ conversationHistory[Len(conversationHistory)] = Turn("assistant", lastChat.req)
  /\ Cardinality({i \in 1..Len(conversationHistory) :
                    conversationHistory[i] = Turn("assistant", lastChat.req)}) = 1
  /\ toWebview # <<>>
  /\ toWebview[Len(toWebview)] = Msg("aiResponse", lastChat.req)

\* C20: currentStreamController is set exactly while a chat request is
\* outstanding.
C20_ControllerWhileOutstanding ==
  (currentStreamController # NULL) <=> (Outstanding # {})

\* C21: with the webview as the only caller, never more than one chat
\* request is outstanding at the host, whatever the Send, Stop and Clear
\* clicks and the reply arrivals.
C21_AtMostOneOutstanding ==
  Cardinality(Outstanding) <= 1

\* C22: after a successful send, once its aiResponse event is handled and
\* typed out and nothing is left in flight, isStreaming is false, so Send
\* is enabled again without a further click.
C22_IdleAfterSuccess ==
  ( /\ lastChat.body = "gemini"
    /\ chatReqs = {}
    /\ toHost = <<>>
    /\ toWebview = <<>>
    /\ currentTypingDiv = NoReq )
    => ~isStreaming

\* getApiKey returns null to the handleChatMessage of request q in this
\* step: the input box was open and the request is gone
KeyPromptDismissed(q) ==
  /\ q \in chatReqs
  /\ q.pc = "prompt"
  /\ \A p \in chatReqs' : p.req # q.req

\* C23: every failing send (no key, a rejected request, a body without the
\* text) posts an error event to the webview, and the webview, handling an
\* error event, sets isStreaming false, which is what sendMessage() tests.
C23_FailureReenablesSend ==
  [][/\ \A q \in chatReqs :
          ((Settles(q) /\ lastChat'.body # "gemini") \/ KeyPromptDismissed(q))
            => toWebview' = Append(toWebview, Msg("error", q.req))
     /\ ( /\ toWebview # <<>>
          /\ Head(toWebview).type = "error"
          /\ toWebview' = Tail(toWebview) )
          => ~isStreaming']_vars

\* the error event of a rejected request was handled: nothing is in flight,
\* isStreaming is false and a further send is possible
C23_Witness ==
  /\ lastChat.body = "rejected"
  /\ chatReqs = {}
  /\ toHost = <<>>
  /\ toWebview = <<>>
  /\ stoppedReqs = {}
  /\ ~isStreaming
  /\ nChat < MaxChat

\* C24: when no key is configured and the prompt is dismissed, the command
\* aborts with no partial state change: the history holds no turn of the
\* aborted send, and no diagnostics or document text change.
C24_DismissedPromptLeavesNoTrace ==
  [][/\ \A q \in chatReqs :
          KeyPromptDismissed(q)
            => \A i \in 1..Len(conversationHistory') :
                 conversationHistory'[i].req # q.req
     /\ \A o \in ops :
          (o.pc = "prompt" /\ Ends(o))
            => diagnostics' = diagnostics /\ lineCount' = lineCount]_vars

\* C25: when the model request of a review, quick review or apply-fix is
\* rejected, the diagnostics and the document text stay as they are, one
\* error message is shown and no further request is made.
C25_FailedRequestChangesNothing ==
  [][\A o \in Sent({"review", "quick", "applyAIFix"}) :
       (Ends(o) /\ lastEvent'.body = "none")
         => /\ diagnostics' = diagnostics
            /\ lineCount' = lineCount
            /\ lastEvent' = Event(o.kind, "failed", "none", 0)
            /\ ops' = ops \ {o}
            /\ nOps' = nOps]_vars

\* the request of a quick review was rejected while the set held diagnostics
C25_Witness ==
  /\ lastEvent = Event("quick", "failed", "none", 0)
  /\ diagnostics # <<>>

\* C26: when applyAIFix gets its reply while the active editor does not
\* show the document, no edit is made and the diagnostic set is unchanged,
\* so the diagnostic is still in it.
C26_InactiveDocumentIsLeftAlone ==
  [][\A o \in Sent({"applyAIFix"}) :
       (Ends(o) /\ lastEvent'.body # "none" /\ ~activeDoc)
         => /\ lineCount' = lineCount
            /\ diagnostics' = diagnostics]_vars

\* applyAIFix read a fix from the reply, found another editor active and
\* ended with the diagnostics still stored
C26_Witness ==
  /\ lastEvent.kind = "applyAIFix"
  /\ lastEvent.outcome = "notActive"
  /\ diagnostics # <<>>

\* C27: once the document is closed its diagnostic set is empty.
C27_ClosedDocumentHasNoDiagnostics ==
  ~docOpen => diagnostics = <<>>

\* C28: no command has a model request in flight that was built from empty
\* code.
C28_NoRequestFromEmptyCode ==
  \A o \in ops : o.pc = "sent" => o.code # "empty"

\* C29: the history holds no turn of an exchange begun before the last
\* clearChat: every assistant turn in it comes after the user turn of its
\* exchange, so an empty history gets its first turn from a sendMessage.
C29_NoTurnOfClearedExchange ==
  \A i \in 1..Len(conversationHistory) :
    conversationHistory[i].role = "assistant"
      => \E j \in 1..(i - 1) :
           conversationHistory[j] = Turn("user", conversationHistory[i].req)

\* C30: when a quick review ends while another quick review is in flight,
\* its batch, one diagnostic per surviving issue, is appended whole to the
\* set as it is then, nothing of it lost and nothing of the set touched.
C30_OverlappingQuickAppends ==
  [][\A o \in Sent({"quick"}) :
       ( /\ Ends(o)
         /\ \E p \in Sent({"quick"}) : p.op # o.op
         /\ lastEvent'.body = "gemini"
         /\ lastEvent'.text # 0
         /\ Len(QuickIssues[lastEvent'.text]) >= 1 )
         => /\ Len(diagnostics') =
                 Len(diagnostics) + Len(QuickIssues[lastEvent'.text])
            /\ SubSeq(diagnostics', 1, Len(diagnostics)) = diagnostics
            /\ \A i \in 1..Len(QuickIssues[lastEvent'.text]) :
                 diagnostics'[Len(diagnostics) + i].id = nDiags + i]_vars

\* C31: when two full reviews overlap, the set left after both is the
\* result of the one started later: the review that already waited when the
\* run began, ending after a review of the run has stored its result and no
\* command has started since, leaves the set as that review left it.
C31_LaterStartedReviewWins ==
  [][\A o \in Sent({"review"}) :
       ( /\ Ends(o)
         /\ o.op = 0
         /\ lastEvent.kind = "review"
         /\ lastEvent.outcome \in {"ok", "noissues"} )
         => diagnostics' = diagnostics]_vars

\* C32: after clearDiagnostics has run the set stays empty until a review
\* is started: a review or quick review that was in flight when it ran and
\* is the first command to end after it, none having started since, leaves
\* the set empty.
C32_ClearedSetStaysEmpty ==
  [][\A o \in Sent({"review", "quick"}) :
       (Ends(o) /\ lastEvent.kind = "clear")
         => diagnostics' = <<>>]_vars

\* the text holds an array that JSON.parse accepts and that has a null in it
ParsesWithNull(text) ==
  /\ GreedyMatch(text) # <<>>
  /\ JsonParse(GreedyMatch(text)).ok
  /\ \E i \in 1..Len(JsonParse(GreedyMatch(text)).arr) :
       IsNull(JsonParse(GreedyMatch(text)).arr[i])

\* C33: a reply whose array parses but holds an element that is not an
\* object, such as null, never ends a review or a quick review with an error
\* message.
C33_NullElementIsAbsorbed ==
  [][\A o \in Sent({"review", "quick"}) :
       ( /\ Ends(o)
         /\ lastEvent'.body = "gemini"
         /\ lastEvent'.text # 0
         /\ ParsesWithNull(ModelTexts[lastEvent'.text]) )
         => lastEvent'.outcome # "error"]_vars

\* C34: quickReviewSelection never fails with an unhandled exception,
\* with no active editor and without its arguments too.
C34_QuickReviewNeverUnhandled ==
  lastEvent.kind = "quick" => lastEvent.outcome # "unhandled"

\* the handleChatMessage of request q returns in this step
Returns(q) == q \in chatReqs /\ \A p \in chatReqs' : p.req # q.req

\* C35: every send that reaches handleChatMessage gets exactly one terminal
\* event: the step in which its handleChatMessage returns posts one
\* aiResponse or one error for it, and no other step posts a terminal event.
C35_OneTerminalEventPerSend ==
  [][/\ \A q \in chatReqs :
          Returns(q)
            => \E type \in {"aiResponse", "error"} :
                 toWebview' = Append(toWebview, Msg(type, q.req))
     /\ ( /\ Len(toWebview') > Len(toWebview)
          /\ toWebview'[Len(toWebview')].type \in {"aiResponse", "error"} )
          => /\ Len(toWebview') = Len(toWebview) + 1
             /\ \E q \in chatReqs :
                  Returns(q) /\ q.req = toWebview'[Len(toWebview')].req]_vars

\* a send whose reply could not be read has returned: the only terminal
\* event posted for it is one error
C35_Witness ==
  /\ lastChat.body = "unreadable"
  /\ \A q \in chatReqs : q.req # lastChat.req
  /\ Cardinality({i \in 1..Len(toWebview) :
                    /\ toWebview[i].req = lastChat.req
                    /\ toWebview[i].type \in {"aiResponse", "error"}}) = 1
  /\ toWebview[Len(toWebview)] = Msg("error", lastChat.req)

\* C36: a quick review in which no issue survives parsing and filtering
\* (an empty array, no array, an array that does not parse, every issue
\* filtered out) leaves the diagnostic set exactly as it was.
C36_QuickWithoutSurvivorsKeepsSet ==
  [][\A o \in Sent({"quick"}) :
       ( /\ Ends(o)
         /\ lastEvent'.body = "gemini"
         /\ lastEvent'.text # 0
         /\ Len(QuickIssues[lastEvent'.text]) = 0 )
         => /\ diagnostics' = diagnostics
            /\ lastEvent'.outcome = "noissues"]_vars

\* a quick review whose reply had an array with issues, none of which
\* passed the filter, ended with the stored diagnostics still in the set
C36_Witness ==
  /\ lastEvent.kind = "quick"
  /\ lastEvent.outcome = "noissues"
  /\ lastEvent.text # 0
  /\ LazyMatch(ModelTexts[lastEvent.text]) # <<>>
  /\ Len(JsonParse(LazyMatch(ModelTexts[lastEvent.text])).arr) >= 1
  /\ diagnostics # <<>>

\* C37: the context excerpt applyAIFix sends for a diagnostic on line L
\* holds the lines max(0, L - 5) to min(lineCount - 1, L + 5), the text of
\* line L among them, also when L is the last line.
C37_ContextHoldsTargetLine ==
  \A o \in Sent({"applyAIFix"}) :
    o.diag.line \in RangeLines(o.startLine, o.endLine)

\* C38: on a document whose language is not in the list, reviewDocument
\* sends no model request and leaves the diagnostic set unchanged: a command
\* that is not a quick review starts and ends at once, with the suspended
\* commands and the set as they were.
C38_UnsupportedLanguageIsLeftAlone ==
  [][( /\ languageId \notin supportedLanguages
       /\ nOps' = nOps + 1
       /\ lastEvent'.kind # "quick"
       /\ \A o \in ops' \ ops : o.kind # "quick" )
       => /\ ops' = ops
          /\ diagnostics' = diagnostics]_vars

\* reviewDocument has turned down a document of an unsupported language
\* that has diagnostics stored
C38_Witness ==
  /\ languageId \notin supportedLanguages
  /\ lastEvent = Event("review", "unsupported", "none", 0)
  /\ diagnostics # <<>>
====
